---- MODULE Spec2Model ----
\* Model of prolog/hil_slurmctld_prolog.py: the Slurm control daemon prolog /
\* epilog hook that creates and releases HIL reservations.
\*
\* Python strings are sequences of one-character strings, so that startswith,
\* `in`, split, strptime and strftime are computed character by character.
\* A Python exception that leaves a function is the `exc` field of the
\* function's result ("" when the function returns normally).
\*
\* _modify_hil_reservation (line 230) ends its return statement with a stray
\* colon, which the Python compiler rejects; the model reads the function
\* bodies as written and treats that line as the call it spells.
EXTENDS Integers, Sequences, FiniteSets, TLC

VARIABLES
    settings,   \* hil_slurm_settings: the RES_CHECK_* toggles
    res,        \* the reservations the resource manager holds
    trace,      \* the resource manager calls of the last invocation, in order
    log,        \* the log_info / log_error calls of the last invocation
    outcome,    \* "" when the last invocation returned, else the exception
    ret,        \* the value the last invocation returned
    inv,        \* the last invocation: the function and its inputs
    runs        \* the number of invocations so far

vars == <<settings, res, trace, log, outcome, ret, inv, runs>>

\* ------------------------------------------------------------------ bounds

MaxRuns == 2

\* --------------------------------------------------------------- constants
\* hil_slurm_constants and hil_slurm_settings are imported, not part of the
\* source file. The values are those of the specification's scenarios (the
\* command names, the hil_ partition prefix, a default duration of 3600 s);
\* the reservation prefix and the grace period of four hours are examples.

HIL_RESERVATION_PREFIX == <<"f","l","e","x","a","l","l","o","c","_","M","O","C","_">>
HIL_RESERVE == <<"h","i","l","_","r","e","s","e","r","v","e">>
HIL_RELEASE == <<"h","i","l","_","r","e","l","e","a","s","e">>
HIL_RESERVATION_COMMANDS == {HIL_RESERVE, HIL_RELEASE}
HIL_PARTITION_PREFIX == <<"h","i","l","_">>
HIL_RESERVATION_DEFAULT_DURATION == 3600
HIL_RESERVATION_GRACE_PERIOD == 14400

\* The literal date part of SHOW_OBJ_TIME_FMT / RES_CREATE_TIME_FMT
\* ('%Y-%m-%dT%H:%M:%S') for the month the model's timestamps lie in.
YearMonth == <<"2","0","1","7","-","0","5","-">>

PyNone == <<"<None>">>
EmptyDict == [k \in {} |-> 0]

\* ----------------------------------------------------------------- strings

Digits == <<"0","1","2","3","4","5","6","7","8","9">>
IsDigit(c) == \E i \in 1..10 : Digits[i] = c
DigitVal(c) == (CHOOSE i \in 1..10 : Digits[i] = c) - 1

\* str.startswith
StartsWith(s, p) == Len(p) <= Len(s) /\ SubSeq(s, 1, Len(p)) = p

\* the `in` operator on strings
Contains(s, sub) ==
    \E i \in 0..(Len(s) - Len(sub)) : SubSeq(s, i + 1, i + Len(sub)) = sub

\* str.split(sep) for a one-character separator
RECURSIVE Split(_, _)
Split(s, sep) ==
    IF \A i \in 1..Len(s) : s[i] # sep
    THEN <<s>>
    ELSE LET k == CHOOSE i \in 1..Len(s) :
                      s[i] = sep /\ \A j \in 1..(i - 1) : s[j] # sep
         IN  <<SubSeq(s, 1, k - 1)>> \o Split(SubSeq(s, k + 1, Len(s)), sep)

\* A two-digit field of a time string starting at position i, -1 when the
\* characters are not digits.
Field2(s, i) ==
    IF i + 1 <= Len(s) /\ IsDigit(s[i]) /\ IsDigit(s[i + 1])
    THEN DigitVal(s[i]) * 10 + DigitVal(s[i + 1])
    ELSE -1

Fmt2(n) == <<Digits[(n \div 10) + 1], Digits[(n % 10) + 1]>>

\* datetime.strptime(s, SHOW_PARTITION_MAXTIME_HMS_FMT) ('%H:%M:%S'): the
\* hour, minute and second, or exc = "ValueError".
strptime_hms(s) ==
    LET h == Field2(s, 1)
        m == Field2(s, 4)
        sec == Field2(s, 7)
    IN  IF /\ Len(s) = 8 /\ s[3] = ":" /\ s[6] = ":"
           /\ h \in 0..23 /\ m \in 0..59 /\ sec \in 0..59
        THEN [exc |-> "", hour |-> h, minute |-> m, second |-> sec]
        ELSE [exc |-> "ValueError", hour |-> 0, minute |-> 0, second |-> 0]

\* datetime.strptime(s, SHOW_OBJ_TIME_FMT): a datetime is the number of seconds
\* since 2017-05-01T00:00:00; -1 stands for the ValueError of a malformed string.
strptime(s) ==
    LET d == Field2(s, 9)
        hms == strptime_hms(SubSeq(s, 12, 19))
    IN  IF /\ Len(s) = 19 /\ StartsWith(s, YearMonth) /\ s[11] = "T"
           /\ d \in 1..31 /\ hms.exc = ""
        THEN (d - 1) * 86400 + hms.hour * 3600 + hms.minute * 60 + hms.second
        ELSE -1

\* dt.strftime(RES_CREATE_TIME_FMT)
strftime(dt) ==
    YearMonth \o Fmt2((dt \div 86400) + 1) \o <<"T">>
        \o Fmt2((dt % 86400) \div 3600) \o <<":">>
        \o Fmt2((dt % 3600) \div 60) \o <<":">>
        \o Fmt2(dt % 60)

\* ------------------------------------------------- values the code tests for

UNLIMITED == <<"U","N","L","I","M","I","T","E","D">>
Unknown == <<"U","n","k","n","o","w","n">>
NotFound == <<"n","o","t"," ","f","o","u","n","d">>
InvalidName == <<"h","i","l","_","r","e","l","e","a","s","e",":"," ","e","r","r","o","r",":"," ","I","n","v","a","l","i","d"," ","r","e","s","e","r","v","a","t","i","o","n"," ","n","a","m","e">>
UP == <<"U","P">>
YES == <<"Y","E","S">>
NO == <<"N","O">>

\* A log call: its level and the source line that makes it.
L(level, line) == <<[level |-> level, line |-> line]>>

\* ------------------------------------------------------- resource manager
\* hil_slurm_helpers is imported, not part of the source file. The world a
\* call acts on is w = [res, trace, log]. A call whose answer the hook cannot
\* predict yields the set of its possible results.

ResNames(r) == {x.name : x \in r}

ShowNotFound == <<"R","e","s","e","r","v","a","t","i","o","n"," ">> \o NotFound
ShowError == <<"s","l","u","r","m","_","l","o","a","d","_","r","e","s","e","r","v","a","t","i","o","n","s"," ","e","r","r","o","r">>
CreateDuplicate == <<"D","u","p","l","i","c","a","t","e"," ","r","e","s","e","r","v","a","t","i","o","n"," ","n","a","m","e">>

\* `scontrol show reservation <resname>`: stderr_data is empty when the
\* reservation is found and a 'not found' message when it is not; in either
\* case the command itself may fail with another error.
exec_scontrol_show_cmd(w, resname) ==
    { [w |-> [w EXCEPT !.trace = @ \o <<[op |-> "show", name |-> resname,
                                         present |-> resname \in ResNames(w.res),
                                         stderr |-> s]>>],
       stderr |-> s] :
      s \in IF resname \in ResNames(w.res) THEN {<<>>, ShowError}
            ELSE {ShowNotFound, ShowError} }

\* create: the manager adds the reservation unless the name is taken.
create_slurm_reservation(w, resname, username, t_start_s, t_end_s) ==
    [w |-> [w EXCEPT !.trace = @ \o <<[op |-> "create", name |-> resname,
                                       user |-> username, start |-> t_start_s,
                                       end |-> t_end_s]>>,
                     !.res = IF resname \in ResNames(@) THEN @
                             ELSE @ \cup {[name |-> resname, user |-> username,
                                           start |-> t_start_s, end |-> t_end_s]}],
     val |-> <<<<>>, IF resname \in ResNames(w.res) THEN CreateDuplicate ELSE <<>>>>]

\* delete: the manager removes the reservation of that name.
delete_slurm_reservation(w, resname) ==
    [w |-> [w EXCEPT !.trace = @ \o <<[op |-> "delete", name |-> resname]>>,
                     !.res = {x \in @ : x.name # resname}],
     val |-> <<<<>>, IF resname \in ResNames(w.res) THEN <<>> ELSE InvalidName>>]

\* ------------------------------------------------------------ _check_hil_partition

\* The check with every test left out.
_check_hil_partition_AlwaysTrue(env_dict, pdata_dict) ==
    [status |-> TRUE, log |-> <<>>]

\* Lines 64-103: every enabled check is made, each failure logs and clears
\* the status.
_check_hil_partition(env_dict, pdata_dict) ==
    LET bad1 == ~StartsWith(pdata_dict.PartitionName, HIL_PARTITION_PREFIX)
        bad2 == settings.RES_CHECK_PARTITION_STATE /\ pdata_dict.State # UP
        bad3 == settings.RES_CHECK_DEFAULT_PARTITION /\ pdata_dict.Default = YES
        bad4 == settings.RES_CHECK_SHARED_PARTITION /\ pdata_dict.Shared # NO
        bad5 == settings.RES_CHECK_EXCLUSIVE_PARTITION /\ pdata_dict.ExclusiveUser # YES
    IN  [status |-> ~(bad1 \/ bad2 \/ bad3 \/ bad4 \/ bad5),
         log |-> (IF bad1 THEN L("info", 73) ELSE <<>>)
                 \o (IF bad2 THEN L("info", 81) ELSE <<>>)
                 \o (IF bad3 THEN L("info", 88) ELSE <<>>)
                 \o (IF bad4 THEN L("info", 95) ELSE <<>>)
                 \o (IF bad5 THEN L("info", 100) ELSE <<>>)]

\* Lines 106-115: the job name when it is a HIL command, else None.
_check_hil_command(env_dict) ==
    IF env_dict.jobname \in HIL_RESERVATION_COMMANDS
    THEN [val |-> env_dict.jobname, log |-> <<>>]
    ELSE [val |-> PyNone, log |-> L("debug", 114)]

\* ------------------------------------------------------ _get_hil_reservation_times

\* The job's end time as it is, without the grace period.
EndFromJobEnd_NoGrace(t_job_end_dt) == t_job_end_dt

\* Line 140: the job's end time extended by the grace period.
EndFromJobEnd(t_job_end_dt) == t_job_end_dt + HIL_RESERVATION_GRACE_PERIOD

\* The job's start plus the grace period instead of the default duration.
EndFromDefault_GracePeriod(t_start_dt) == t_start_dt + HIL_RESERVATION_GRACE_PERIOD

\* Line 156: the job's start plus the HIL default duration.
EndFromDefault(t_start_dt) == t_start_dt + HIL_RESERVATION_DEFAULT_DURATION

\* Lines 187-195: both datetimes as strings. t_end_dt is unassigned (-1 here)
\* on every path that did not compute it, and line 190 then raises.
FormatTimes(t_start_dt, t_end_dt, lg) ==
    IF t_end_dt < 0
    THEN [exc |-> "UnboundLocalError", val |-> <<>>, log |-> lg]
    ELSE [exc |-> "", val |-> <<strftime(t_start_dt), strftime(t_end_dt)>>, log |-> lg]

\* Lines 136-140: the job has a defined end time.
TimesFromJobEnd(t_start_dt, t_job_end_dt) ==
    IF t_job_end_dt < 0
    THEN [exc |-> "ValueError", val |-> <<>>, log |-> L("debug", 137)]
    ELSE FormatTimes(t_start_dt, EndFromJobEnd(t_job_end_dt), L("debug", 137))

\* Lines 158-180: the partition has a max time, [days-]H:M:S. With one field
\* the max time is computed into p_max_timedelta and t_end_dt is not assigned;
\* with two, line 170 looks up `timedelta` on the class datetime.datetime,
\* which has no such attribute, before anything is computed; with more, the
\* error is logged and t_end_dt is not assigned.
TimesFromMaxTime(t_start_dt, d_hms) ==
    IF Len(d_hms) = 1
    THEN IF strptime_hms(d_hms[1]).exc # ""
         THEN [exc |-> "ValueError", val |-> <<>>,
               log |-> L("debug", 151) \o L("debug", 161)]
         ELSE FormatTimes(t_start_dt, -1, L("debug", 151) \o L("debug", 161))
    ELSE IF Len(d_hms) = 2
    THEN [exc |-> "AttributeError", val |-> <<>>,
          log |-> L("debug", 151) \o L("debug", 161)]
    ELSE FormatTimes(t_start_dt, -1,
                     L("debug", 151) \o L("debug", 161) \o L("error", 180))

\* Lines 130-195, given the parsed job start time.
TimesFromStart(t_start_dt, pdata_dict, jobdata_dict) ==
    IF t_start_dt < 0
    THEN [exc |-> "ValueError", val |-> <<>>, log |-> <<>>]
    ELSE IF ~Contains(jobdata_dict.EndTime, Unknown)
    THEN TimesFromJobEnd(t_start_dt, strptime(jobdata_dict.EndTime))
    ELSE IF Contains(jobdata_dict.TimeLimit, UNLIMITED)
    THEN IF Contains(pdata_dict.MaxTime, UNLIMITED)
         THEN FormatTimes(t_start_dt, EndFromDefault(t_start_dt),
                          L("debug", 151) \o L("debug", 155))
         ELSE TimesFromMaxTime(t_start_dt, Split(pdata_dict.MaxTime, "-"))
    ELSE FormatTimes(t_start_dt, -1, L("debug", 184))

\* Lines 118-195.
_get_hil_reservation_times(env_dict, pdata_dict, jobdata_dict) ==
    TimesFromStart(strptime(jobdata_dict.StartTime), pdata_dict, jobdata_dict)

\* ------------------------------------------------------- _get_hil_reservation_name

\* Lines 249-257.
_get_hil_reservation_name(name_token, env_dict, t_start_s) ==
    HIL_RESERVATION_PREFIX \o <<"_">> \o name_token \o <<"_">>
        \o env_dict.username \o <<"_">>
        \o env_dict.job_uid \o <<"_">> \o t_start_s

\* --------------------------------------------------------- _create_hil_reservation

\* Lines 210-221, given the show query's result sh.
CreateAfterShow(sh, resname, env_dict, t) ==
    IF sh.stderr # <<>> /\ ~Contains(sh.stderr, NotFound)
    THEN [w |-> [sh.w EXCEPT !.log = @ \o L("info", 211)], exc |-> "",
          val |-> <<resname, sh.stderr>>]
    ELSE [create_slurm_reservation([sh.w EXCEPT !.log = @ \o L("info", 214)], resname,
                                   env_dict.username, t.val[1], t.val[2])
          EXCEPT !.val = <<resname, @[2]>>] @@ [exc |-> ""]

\* Lines 203-221, given the reservation times t.
CreateWithTimes(w, name_token, env_dict, t) ==
    IF t.exc # ""
    THEN {[w |-> [w EXCEPT !.log = @ \o t.log], exc |-> t.exc, val |-> <<>>]}
    ELSE { CreateAfterShow(sh, _get_hil_reservation_name(name_token, env_dict, t.val[1]),
                           env_dict, t) :
           sh \in exec_scontrol_show_cmd([w EXCEPT !.log = @ \o t.log],
                      _get_hil_reservation_name(name_token, env_dict, t.val[1])) }

\* Lines 198-221.
_create_hil_reservation(w, name_token, env_dict, pdata_dict, jobdata_dict) ==
    CreateWithTimes(w, name_token, env_dict,
                    _get_hil_reservation_times(env_dict, pdata_dict, jobdata_dict))

\* Lines 224-230: `resname` is neither a parameter nor a global.
_modify_hil_reservation(w, env_dict, pdata_dict, jobdata_dict) ==
    [w |-> w, exc |-> "NameError", val |-> <<>>]

\* --------------------------------------------------------- _delete_hil_reservation

\* The test of the prefix alone, without the owner.
ValidResName_PrefixOnly(resname, username) == StartsWith(resname, HIL_RESERVATION_PREFIX)

\* Line 242: the name starts with the prefix and then the user.
ValidResName(resname, username) ==
    StartsWith(resname, HIL_RESERVATION_PREFIX \o username)

\* Lines 233-246.
_delete_hil_reservation(w, env_dict, pdata_dict, jobdata_dict, resname) ==
    IF ~ValidResName(resname, env_dict.username)
    THEN [w |-> [w EXCEPT !.log = @ \o L("info", 239) \o L("info", 243)], exc |-> "",
          val |-> <<PyNone, InvalidName>>]
    ELSE delete_slurm_reservation([w EXCEPT !.log = @ \o L("info", 239)], resname)
             @@ [exc |-> ""]

\* ------------------------------------------------------------------ commands

\* Lines 267-275: the reserve and then the release reservation, both from
\* _create_hil_reservation with the same job, partition and environment.
_hil_reserve_cmd(w, env_dict, pdata_dict, jobdata_dict) ==
    UNION { IF r1.exc # ""
            THEN {r1}
            ELSE _create_hil_reservation(r1.w, HIL_RELEASE, env_dict, pdata_dict,
                                         jobdata_dict) :
            r1 \in _create_hil_reservation(w, HIL_RESERVE, env_dict, pdata_dict,
                                           jobdata_dict) }

\* Lines 278-305. The job record has a Reservation key only when a reservation
\* is attached. Lines 288, 291 and 298 read `resname`, a name the function
\* never binds (the reservation is in reserve_resname): each raises NameError
\* while its arguments are evaluated, before log_error or
\* _delete_hil_reservation is entered. Line 303 is therefore never reached.
_hil_release_cmd(w, env_dict, pdata_dict, jobdata_dict) ==
    IF "Reservation" \notin DOMAIN jobdata_dict
    THEN [w |-> w, exc |-> "KeyError", val |-> <<>>]
    ELSE IF jobdata_dict.Reservation # <<>>
    THEN IF ~Contains(jobdata_dict.Reservation, env_dict.username)
         THEN [w |-> w, exc |-> "NameError", val |-> <<>>]
         ELSE IF ~Contains(jobdata_dict.Reservation, HIL_RESERVE)
         THEN [w |-> w, exc |-> "NameError", val |-> <<>>]
         ELSE [w |-> w, exc |-> "NameError", val |-> <<>>]
    ELSE [w |-> [w EXCEPT !.log = @ \o L("error", 305)], exc |-> "", val |-> <<>>]

\* ----------------------------------------------------------------------- main

\* Lines 356-366, given the partition check and the command.
Dispatch(w, args, env_dict, pdata_dict, jobdata_dict, hil_cmd) ==
    IF args.hil_prolog
    THEN IF hil_cmd = HIL_RESERVE
         THEN _hil_reserve_cmd([w EXCEPT !.log = @ \o L("info", 358) \o L("debug", 359)],
                               env_dict, pdata_dict, jobdata_dict)
         ELSE {[w |-> w, exc |-> "", val |-> <<>>]}
    ELSE IF hil_cmd = HIL_RELEASE
         THEN {_hil_release_cmd([w EXCEPT !.log = @ \o L("debug", 364)],
                                env_dict, pdata_dict, jobdata_dict)}
         ELSE {[w |-> w, exc |-> "", val |-> <<>>]}

\* Lines 347-366, given the results of the two checks.
Checked(w, args, env_dict, pdata_dict, jobdata_dict, chk, cmd) ==
    IF ~chk.status
    THEN {[w |-> [w EXCEPT !.log = @ \o chk.log], exc |-> "", val |-> <<>>]}
    ELSE IF cmd.val = PyNone
    THEN {[w |-> [w EXCEPT !.log = @ \o chk.log \o cmd.log], exc |-> "", val |-> <<>>]}
    ELSE Dispatch([w EXCEPT !.log = @ \o chk.log \o cmd.log], args, env_dict,
                  pdata_dict, jobdata_dict, cmd.val)

\* Lines 320-366. args = [hil_prolog, hil_epilog]; pdata_dict and jobdata_dict
\* are the first records get_partition_data and get_job_data return.
main(w, args, env_dict, pdata_dict, jobdata_dict) ==
    IF ~args.hil_prolog /\ ~args.hil_epilog
    THEN {[w |-> [w EXCEPT !.log = @ \o L("debug", 330)], exc |-> "", val |-> <<>>]}
    ELSE IF DOMAIN pdata_dict = {} \/ DOMAIN jobdata_dict = {} \/ DOMAIN env_dict = {}
    THEN {[w |-> [w EXCEPT !.log = @ \o L("debug", 342) \o L("debug", 343)
                                    \o L("debug", 344)],
           exc |-> "", val |-> <<>>]}
    ELSE Checked(w, args, env_dict, pdata_dict, jobdata_dict,
                 _check_hil_partition(env_dict, pdata_dict),
                 _check_hil_command(env_dict))

\* --------------------------------------------------------------------- inputs

al == <<"a","l">>
ali == <<"a","l","i">>
bo == <<"b","o">>
Users == {al, ali, bo}
JobUid == <<"1","0","0","0">>
JobId == <<"4","2">>
Sleep == <<"s","l","e","e","p">>
JobNames == {HIL_RESERVE, HIL_RELEASE, Sleep}

HilPart1 == <<"h","i","l","_","p","a","r","t","1">>
Debug == <<"d","e","b","u","g">>
DOWN == <<"D","O","W","N">>

T_10_00_00 == <<"2","0","1","7","-","0","5","-","0","1","T","1","0",":","0","0",":","0","0">>
T_23_59_30 == <<"2","0","1","7","-","0","5","-","0","2","T","2","3",":","5","9",":","3","0">>
T_12_00_00 == <<"2","0","1","7","-","0","5","-","0","1","T","1","2",":","0","0",":","0","0">>
T_10_30_00 == <<"2","0","1","7","-","0","5","-","0","1","T","1","0",":","3","0",":","0","0">>
MaxTime_HMS == <<"0","1",":","3","0",":","0","0">>
MaxTime_DHMS == <<"2","-","0","1",":","3","0",":","0","0">>
MaxTime_Bad == <<"1","-","2","-","0","0",":","0","0",":","0","0">>
TimeLimit_HMS == <<"0","1",":","0","0",":","0","0">>

MaxTimes == {UNLIMITED, MaxTime_HMS, MaxTime_DHMS, MaxTime_Bad}
StartTimes == {T_10_00_00, T_23_59_30}
EndTimes == {Unknown, T_12_00_00}
TimeLimits == {UNLIMITED, TimeLimit_HMS}

\* A partition record of `scontrol show partition`.
Partition(maxtime) ==
    [PartitionName |-> HilPart1, State |-> UP, Default |-> NO, Shared |-> NO,
     ExclusiveUser |-> YES, MaxTime |-> maxtime]

\* One partition failing each check of _check_hil_partition.
IneligiblePartitions ==
    { [Partition(UNLIMITED) EXCEPT !.PartitionName = Debug],
      [Partition(UNLIMITED) EXCEPT !.State = DOWN],
      [Partition(UNLIMITED) EXCEPT !.Default = YES],
      [Partition(UNLIMITED) EXCEPT !.Shared = YES],
      [Partition(UNLIMITED) EXCEPT !.ExclusiveUser = NO] }

\* A job record of `scontrol show job`, without and with an attached reservation.
Job(jobname, start, end, limit) ==
    [JobName |-> jobname, StartTime |-> start, EndTime |-> end, TimeLimit |-> limit]

JobIn(jobname, start, end, limit, resname) ==
    [JobName |-> jobname, StartTime |-> start, EndTime |-> end, TimeLimit |-> limit,
     Reservation |-> resname]

\* _get_prolog_environment, lines 42-56.
Env(jobname, username) ==
    [jobname |-> jobname, partition |-> HilPart1, username |-> username,
     job_id |-> JobId, job_uid |-> JobUid]

Flags == [hil_prolog : BOOLEAN, hil_epilog : BOOLEAN]

SettingsChoices ==
    { s \in [RES_CHECK_PARTITION_STATE : BOOLEAN, RES_CHECK_DEFAULT_PARTITION : BOOLEAN,
             RES_CHECK_SHARED_PARTITION : BOOLEAN, RES_CHECK_EXCLUSIVE_PARTITION : BOOLEAN] :
        /\ s.RES_CHECK_PARTITION_STATE = s.RES_CHECK_DEFAULT_PARTITION
        /\ s.RES_CHECK_SHARED_PARTITION = s.RES_CHECK_EXCLUSIVE_PARTITION
        /\ s.RES_CHECK_PARTITION_STATE = s.RES_CHECK_SHARED_PARTITION }

\* Reservations made with scontrol directly, outside the hook (line 237).
AdminReservations ==
    { [name |-> HIL_RESERVATION_PREFIX \o al \o <<"_","m","n","t">>, user |-> al,
       start |-> T_10_00_00, end |-> T_12_00_00],
      [name |-> HIL_RESERVATION_PREFIX \o bo \o <<"_","m","n","t">>, user |-> bo,
       start |-> T_10_00_00, end |-> T_12_00_00] }

World == [res |-> res, trace |-> <<>>, log |-> <<>>]

\* ------------------------------------------------------------ the hook's runs

Init ==
    /\ settings \in SettingsChoices
    /\ res = {}
    /\ trace = <<>>
    /\ log = <<>>
    /\ outcome = ""
    /\ ret = <<>>
    /\ inv = [fn |-> "none"]
    /\ runs = 0

\* The result r of one call, applied to the state.
Apply(call, r) ==
    /\ res' = r.w.res
    /\ trace' = r.w.trace
    /\ log' = r.w.log
    /\ outcome' = r.exc
    /\ ret' = r.val
    /\ inv' = call
    /\ runs' = runs + 1
    /\ UNCHANGED settings

\* One run of the hook, main() from its first line to its return or to the
\* exception that ends it. `now` is the wall clock of the run.
Invoke(args, env_dict, pdata_dict, jobdata_dict, now) ==
    \E r \in main(World, args, env_dict, pdata_dict, jobdata_dict) :
        Apply([fn |-> "main", args |-> args, env |-> env_dict, pdata |-> pdata_dict,
               jobdata |-> jobdata_dict, now |-> now], r)

\* Any flags, any job name, any partition: user al's job with a known end time.
HookRun ==
    /\ runs < MaxRuns
    /\ \E args \in Flags, jobname \in JobNames :
           \/ \E pdata_dict \in {Partition(UNLIMITED)} \cup IneligiblePartitions :
                  Invoke(args, Env(jobname, al), pdata_dict,
                         Job(jobname, T_10_00_00, T_12_00_00, UNLIMITED), T_10_30_00)
           \/ Invoke(args, Env(jobname, al), EmptyDict,
                     Job(jobname, T_10_00_00, T_12_00_00, UNLIMITED), T_10_30_00)
           \/ Invoke(args, Env(jobname, al), Partition(UNLIMITED), EmptyDict, T_10_30_00)

\* hil_reserve in the prolog on the HIL partition, for a user whose name
\* contains another user's and for an unrelated one: a job with a known end
\* time, and jobs without one under each time limit and partition MaxTime
\* (start, end, time limit, partition max time).
ReserveTimings ==
    {<<T_10_00_00, T_12_00_00, UNLIMITED, UNLIMITED>>,
     <<T_10_00_00, Unknown, TimeLimit_HMS, UNLIMITED>>,
     <<T_23_59_30, Unknown, UNLIMITED, UNLIMITED>>}
        \cup {<<T_10_00_00, Unknown, UNLIMITED, m>> : m \in MaxTimes}

PrologReserve ==
    /\ runs < MaxRuns
    /\ \E username \in {ali, bo}, tm \in ReserveTimings :
           Invoke([hil_prolog |-> TRUE, hil_epilog |-> FALSE], Env(HIL_RESERVE, username),
                  Partition(tm[4]), Job(HIL_RESERVE, tm[1], tm[2], tm[3]), tm[1])

\* hil_release in the epilog on the HIL partition: the job ran in one of the
\* reservations the manager holds, or in none.
EpilogRelease ==
    /\ runs < MaxRuns
    /\ \E username \in Users, resname \in ResNames(res) \cup {<<>>} :
           Invoke([hil_prolog |-> FALSE, hil_epilog |-> TRUE], Env(HIL_RELEASE, username),
                  Partition(UNLIMITED),
                  JobIn(HIL_RELEASE, T_10_00_00, T_12_00_00, UNLIMITED, resname),
                  T_10_30_00)

Next == HookRun \/ PrologReserve \/ EpilogRelease

Spec == Init /\ [][Next]_vars

\* ------------------------------------------------- the functions, called alone

UnitInit ==
    /\ settings \in {s \in SettingsChoices : s.RES_CHECK_PARTITION_STATE}
    /\ res = AdminReservations
    /\ trace = <<>>
    /\ log = <<>>
    /\ outcome = ""
    /\ ret = <<>>
    /\ inv = [fn |-> "none"]
    /\ runs = 0

CallTimes ==
    /\ runs < MaxRuns
    /\ \E maxtime \in MaxTimes, start \in StartTimes, end \in EndTimes, limit \in TimeLimits :
           \E t \in {_get_hil_reservation_times(Env(HIL_RESERVE, al), Partition(maxtime),
                                                Job(HIL_RESERVE, start, end, limit))} :
               Apply([fn |-> "_get_hil_reservation_times", env |-> Env(HIL_RESERVE, al),
                      pdata |-> Partition(maxtime),
                      jobdata |-> Job(HIL_RESERVE, start, end, limit)],
                     [w |-> [World EXCEPT !.log = t.log], exc |-> t.exc, val |-> t.val])

CallName ==
    /\ runs < MaxRuns
    /\ \E name_token \in {HIL_RESERVE, HIL_RELEASE}, username \in Users, t_start_s \in StartTimes :
           Apply([fn |-> "_get_hil_reservation_name", name_token |-> name_token,
                  env |-> Env(name_token, username), t_start_s |-> t_start_s],
                 [w |-> World, exc |-> "",
                  val |-> <<_get_hil_reservation_name(name_token, Env(name_token, username),
                                                      t_start_s)>>])

CallCreate ==
    /\ runs < MaxRuns
    /\ \E name_token \in {HIL_RESERVE, HIL_RELEASE}, username \in Users, end \in EndTimes :
           \E r \in _create_hil_reservation(World, name_token, Env(HIL_RESERVE, username),
                        Partition(UNLIMITED), Job(HIL_RESERVE, T_10_00_00, end, UNLIMITED)) :
               Apply([fn |-> "_create_hil_reservation", name_token |-> name_token,
                      env |-> Env(HIL_RESERVE, username), pdata |-> Partition(UNLIMITED),
                      jobdata |-> Job(HIL_RESERVE, T_10_00_00, end, UNLIMITED)], r)

CallModify ==
    /\ runs < MaxRuns
    /\ \E username \in Users :
           Apply([fn |-> "_modify_hil_reservation", env |-> Env(HIL_RELEASE, username)],
                 _modify_hil_reservation(World, Env(HIL_RELEASE, username),
                                         Partition(UNLIMITED), EmptyDict))

CallDelete ==
    /\ runs < MaxRuns
    /\ \E username \in Users,
          resname \in ResNames(res) \cup ResNames(AdminReservations) :
           \E r \in {_delete_hil_reservation(World, Env(HIL_RELEASE, username),
                                             Partition(UNLIMITED), EmptyDict, resname)} :
               Apply([fn |-> "_delete_hil_reservation", env |-> Env(HIL_RELEASE, username),
                      resname |-> resname], r)

UnitNext == CallTimes \/ CallName \/ CallCreate \/ CallModify \/ CallDelete

UnitSpec == UnitInit /\ [][UnitNext]_vars

\* ===================================================================== claims

T_11_00_00 == <<"2","0","1","7","-","0","5","-","0","1","T","1","1",":","0","0",":","0","0">>
T_16_00_00 == <<"2","0","1","7","-","0","5","-","0","1","T","1","6",":","0","0",":","0","0">>

IsMutation(c) == c.op \in {"create", "update", "delete"}
Issued(op) == {i \in 1..Len(trace) : trace[i].op = op}
Logged(level) == \E i \in 1..Len(log) : log[i].level = level

\* The partition passes every check that the settings enable.
PassesEnabledChecks(p) ==
    /\ StartsWith(p.PartitionName, HIL_PARTITION_PREFIX)
    /\ settings.RES_CHECK_PARTITION_STATE => p.State = UP
    /\ settings.RES_CHECK_DEFAULT_PARTITION => p.Default # YES
    /\ settings.RES_CHECK_SHARED_PARTITION => p.Shared = NO
    /\ settings.RES_CHECK_EXCLUSIVE_PARTITION => p.ExclusiveUser = YES

\* The last invocation was main with non-empty data on an eligible partition.
RanOnEligible ==
    /\ inv.fn = "main"
    /\ DOMAIN inv.pdata # {} /\ DOMAIN inv.jobdata # {} /\ DOMAIN inv.env # {}
    /\ PassesEnabledChecks(inv.pdata)

\* The name the naming scheme gives: prefix_role_username_jobuid_start.
SchemeName(role, username, job_uid, start) ==
    HIL_RESERVATION_PREFIX \o <<"_">> \o role \o <<"_">> \o username \o <<"_">>
        \o job_uid \o <<"_">> \o start

\* s with the first occurrence of old replaced by new.
SubstToken(s, old, new) ==
    IF ~Contains(s, old)
    THEN s
    ELSE LET i == CHOOSE k \in 0..(Len(s) - Len(old)) :
                      /\ SubSeq(s, k + 1, k + Len(old)) = old
                      /\ \A j \in 0..(k - 1) : SubSeq(s, j + 1, j + Len(old)) # old
         IN  SubSeq(s, 1, i) \o new \o SubSeq(s, i + Len(old) + 1, Len(s))

\* The value of a string of decimal digits.
RECURSIVE DecimalVal(_)
DecimalVal(s) ==
    IF s = <<>> THEN 0 ELSE DecimalVal(SubSeq(s, 1, Len(s) - 1)) * 10 + DigitVal(s[Len(s)])

\* The seconds a [days-]H:M:S partition max time stands for.
MaxTimeSeconds(p) ==
    LET f == Split(p, "-")
        hms == strptime_hms(f[Len(f)])
    IN  (IF Len(f) = 2 THEN DecimalVal(f[1]) * 86400 ELSE 0)
            + hms.hour * 3600 + hms.minute * 60 + hms.second

\* ------------------------------------------------------------------------- C1
\* C1 (deletion guard): a step in which _delete_hil_reservation is called with
\* a name that does not start with HIL_RESERVATION_PREFIX followed by the
\* invoking username returns (None, 'hil_release: error: Invalid reservation
\* name'), issues no delete call and leaves the manager's reservations as they
\* were; a delete call is issued only for a name that does start so.
C1_DeletionGuard ==
    [][ inv'.fn = "_delete_hil_reservation" =>
            IF StartsWith(inv'.resname, HIL_RESERVATION_PREFIX \o inv'.env.username)
            THEN outcome' = ""
            ELSE /\ outcome' = ""
                 /\ ret' = <<PyNone, InvalidName>>
                 /\ \A i \in 1..Len(trace') : trace'[i].op # "delete"
                 /\ res' = res ]_vars

\* A refused deletion of a reservation the manager holds.
C1_Witness ==
    /\ inv.fn = "_delete_hil_reservation"
    /\ inv.env.username = bo
    /\ inv.resname = HIL_RESERVATION_PREFIX \o al \o <<"_","m","n","t">>
    /\ inv.resname \in ResNames(res)
    /\ ret = <<PyNone, InvalidName>>

\* ------------------------------------------------------------------------- C2
\* The epilog processed hil_release for a job whose reservation name contains
\* the invoking username and the reserve role token.
ReleaseDispatched ==
    /\ RanOnEligible
    /\ inv.args.hil_epilog /\ ~inv.args.hil_prolog
    /\ inv.env.jobname = HIL_RELEASE

ReleaseAccepted ==
    /\ ReleaseDispatched
    /\ "Reservation" \in DOMAIN inv.jobdata
    /\ inv.jobdata.Reservation # <<>>
    /\ Contains(inv.jobdata.Reservation, inv.env.username)
    /\ Contains(inv.jobdata.Reservation, HIL_RESERVE)

\* C2 (release transition): after such a run the hook has returned, having
\* deleted the reserve reservation and then updated the paired release
\* reservation (reserve token replaced by the release token) to start at the
\* current time: the reserve reservation is absent and the release
\* reservation starts now.
C2_ReleaseTransition ==
    ReleaseAccepted =>
        /\ outcome = ""
        /\ inv.jobdata.Reservation \notin ResNames(res)
        /\ \E i, j \in 1..Len(trace) :
               /\ i < j
               /\ trace[i].op = "delete" /\ trace[i].name = inv.jobdata.Reservation
               /\ trace[j].op = "update"
               /\ trace[j].name = SubstToken(inv.jobdata.Reservation, HIL_RESERVE, HIL_RELEASE)
               /\ trace[j].start = inv.now
        /\ \A x \in res :
               x.name = SubstToken(inv.jobdata.Reservation, HIL_RESERVE, HIL_RELEASE)
                   => x.start = inv.now

\* ------------------------------------------------------------------------- C3
\* C3 (release abort): when hil_release is processed and the job's reservation
\* name is absent or empty, or lacks the invoking username or the reserve
\* token, the command logs an error and completes, with no delete or update
\* call.
C3_ReleaseAbort ==
    (ReleaseDispatched /\ ~ReleaseAccepted) =>
        /\ outcome = ""
        /\ Logged("error")
        /\ \A i \in 1..Len(trace) : ~IsMutation(trace[i])

\* ------------------------------------------------------------------------- C4
\* C4 (reserve is skip-if-present): once the show query has found a name, no
\* create call follows for that name; a create call is issued only after the
\* query reported the name as not found.
C4_SkipIfPresent ==
    /\ \A i, j \in 1..Len(trace) :
           (/\ i < j
            /\ trace[i].op = "show" /\ trace[i].present /\ trace[i].stderr = <<>>
            /\ trace[j].op = "create")
               => trace[j].name # trace[i].name
    /\ \A j \in Issued("create") :
           \E i \in 1..(j - 1) :
               /\ trace[i].op = "show" /\ trace[i].name = trace[j].name
               /\ Contains(trace[i].stderr, NotFound)

\* ------------------------------------------------------------------------- C5
\* The name is one _get_hil_reservation_name gives for that user.
HookNamed(name, username) ==
    \E role \in {HIL_RESERVE, HIL_RELEASE}, start \in StartTimes :
        name = _get_hil_reservation_name(role, Env(role, username), start)

\* C5 (ownership-name invariant): every name _get_hil_reservation_name
\* produces for a user begins with HIL_RESERVATION_PREFIX directly followed by
\* the username, and _delete_hil_reservation called by that user on such a
\* name issues the delete.
C5_OwnershipName ==
    /\ inv.fn = "_get_hil_reservation_name" =>
           StartsWith(ret[1], HIL_RESERVATION_PREFIX \o inv.env.username)
    /\ (inv.fn = "_delete_hil_reservation" /\ HookNamed(inv.resname, inv.env.username)) =>
           Issued("delete") # {}

\* ------------------------------------------------------------------------- C6
\* C6 (paired windows are ordered): after a hil_reserve run that created both
\* reservations, the release reservation starts at or after the end of the
\* reserve reservation.
C6_PairedWindowsOrdered ==
    \A x, y \in res :
        (/\ inv.fn = "main" /\ outcome = ""
         /\ \E i, j \in Issued("create") :
                /\ i < j
                /\ trace[i].name = x.name /\ trace[j].name = y.name
                /\ ~trace[i - 1].present /\ ~trace[j - 1].present)
            => strptime(y.start) >= strptime(x.end)

\* ------------------------------------------------------------------------- C7
\* hil_reserve in the prolog on an eligible partition, the job without end
\* time and time limit, the partition without max time, both names reported
\* not found.
ReserveDefaultScenario ==
    /\ RanOnEligible
    /\ inv.args.hil_prolog
    /\ inv.env.jobname = HIL_RESERVE
    /\ inv.jobdata.EndTime = Unknown
    /\ inv.jobdata.TimeLimit = UNLIMITED
    /\ inv.pdata.MaxTime = UNLIMITED
    /\ \A i \in Issued("show") : trace[i].stderr = ShowNotFound

C8_WindowFromMaxTime ==
    (/\ inv.fn = "_get_hil_reservation_times"
     /\ inv.jobdata.EndTime = Unknown
     /\ inv.jobdata.TimeLimit = UNLIMITED
     /\ inv.pdata.MaxTime \in {MaxTime_HMS, MaxTime_DHMS})
        => /\ outcome = ""
           /\ strptime(ret[2])
                  = strptime(inv.jobdata.StartTime) + MaxTimeSeconds(inv.pdata.MaxTime)

\* ------------------------------------------------------------------------- C9
\* C9 (window from job end time): for a job with a defined end time,
\* _get_hil_reservation_times returns the job's start time and the job's end
\* time plus HIL_RESERVATION_GRACE_PERIOD, whatever the time limit and the
\* partition max time.
C9_WindowFromJobEnd ==
    (/\ inv.fn = "_get_hil_reservation_times"
     /\ ~Contains(inv.jobdata.EndTime, Unknown))
        => /\ outcome = ""
           /\ strptime(ret[1]) = strptime(inv.jobdata.StartTime)
           /\ strptime(ret[2])
                  = strptime(inv.jobdata.EndTime) + HIL_RESERVATION_GRACE_PERIOD

\* A job with a time limit on a partition with a max time: end 12:00:00 plus
\* the grace period of four hours.
C9_Witness ==
    /\ inv.fn = "_get_hil_reservation_times"
    /\ inv.jobdata.EndTime = T_12_00_00
    /\ inv.jobdata.TimeLimit = TimeLimit_HMS
    /\ inv.pdata.MaxTime = MaxTime_DHMS
    /\ inv.jobdata.StartTime = T_23_59_30
    /\ ret = <<T_23_59_30, T_16_00_00>>

\* ------------------------------------------------------------------------ C10
\* C10 (no mutation outside the protocol): a create, update or delete call is
\* issued by a run of main only if the job, partition and environment data are
\* non-empty, the partition passes every enabled check, and the run is the
\* prolog with hil_reserve or the epilog with hil_release.
C10_NoMutationOutsideProtocol ==
    (\E i \in 1..Len(trace) : IsMutation(trace[i])) =>
        /\ RanOnEligible
        /\ \/ inv.args.hil_prolog /\ inv.env.jobname = HIL_RESERVE
           \/ inv.args.hil_epilog /\ inv.env.jobname = HIL_RELEASE

\* A run that did create a reservation, with every check enabled.
C10_Witness ==
    /\ inv.fn = "main"
    /\ settings.RES_CHECK_PARTITION_STATE /\ settings.RES_CHECK_EXCLUSIVE_PARTITION
    /\ inv.args.hil_prolog /\ inv.env.jobname = HIL_RESERVE
    /\ Issued("create") # {}
    /\ res # {}

====
